---- MODULE Spec2Model ----
(***************************************************************************)
(* swget: batch downloader (src/main.rs).  main() maps a closure over the  *)
(* input URIs on the rayon pool; the closure creates the output file,      *)
(* resolves the remote resource (RemoteFile::from) and downloads it with   *)
(* rdownload (concurrent byte ranges) or sdownload (one streamed GET).     *)
(*                                                                         *)
(* Byte strings are kept as sequences of runs <<a, b>>: the bytes of the   *)
(* remote resource at offsets a .. b-1.  Two byte strings are equal iff    *)
(* their normal forms (Normalize) are equal.                               *)
(***************************************************************************)
EXTENDS Integers, Sequences, FiniteSets, TLC

\* ------------------------------------------------------------------ bounds
MaxUris == 2
MaxThreads == 2

\* --------------------------------------------------------- program constants
BUFFER_SIZE == 1024 * 1024
PARTIAL_CONTENT == 206
\* usize::MAX, the value 0 - 1 wraps to when overflow checks are off.  Only its
\* being above every length matters, so it is held at the largest representable
\* integer.
USIZE_MAX == 2147483647

\* Lengths of the remote resources.  A batch is run over resources of at most
\* one byte; a single download over every shape of length: empty, below one
\* chunk, whole chunks, whole chunks and a remainder.
SmallLengths == {0, 1}
Lengths == {0, 1, BUFFER_SIZE - 1, BUFFER_SIZE, BUFFER_SIZE + 1,
            2 * BUFFER_SIZE, 3000000}

VARIABLES
    resource,        \* the server: per URI, the resource's length and disposition header
    uris,            \* main: the input list (line 206)
    download_mode,   \* main: opt.mode
    thread_num,      \* main: size of the rayon pool (line 220)
    overflow_checks, \* build profile: arithmetic overflow panics (debug) or wraps
    pc,              \* per input position: where the closure of line 226 stands
    remote,          \* per input position: Option<RemoteFile> of line 243
    ranges,          \* rdownload: the planned ranges (line 107)
    slot,            \* rdownload: per range, the state of its get_ranged_data call
    arrived,         \* rdownload: range indices in the order their fetches returned
    stream,          \* sdownload: the response being read and saved_length
    file,            \* per input position: the output file on disk
    completed,       \* input positions in the order their closures returned Some
    mainpc,          \* where main stands
    ok_uris,         \* main: the filtered result (line 261)
    log,             \* the log file on disk
    message,         \* what main printed last
    probe,           \* per input position: the HEAD response RemoteFile::from received
    run,             \* which run of the program over this input and output root this is
    earlier          \* what the run before this one left: its log lines, its successes

vars == <<resource, uris, download_mode, thread_num, overflow_checks, pc, remote, ranges,
          slot, arrived, stream, file, completed, mainpc, ok_uris, log, message,
          probe, run, earlier>>

\* ------------------------------------------------------------------ values
None == [some |-> FALSE]
Some(v) == [some |-> TRUE, val |-> v]

Min(a, b) == IF a < b THEN a ELSE b

\* Number of bytes of a byte string.
RECURSIVE ByteLen(_)
ByteLen(bs) == IF bs = <<>> THEN 0
               ELSE (Head(bs)[2] - Head(bs)[1]) + ByteLen(Tail(bs))

\* Normal form of a byte string: no empty run, adjacent runs merged.
RECURSIVE Normalize(_)
Normalize(bs) ==
    IF bs = <<>> THEN <<>>
    ELSE LET h == Head(bs)
             t == Normalize(Tail(bs))
         IN  IF h[1] >= h[2] THEN t
             ELSE IF t # <<>> /\ t[1][1] = h[2] THEN <<<<h[1], t[1][2]>>>> \o Tail(t)
             ELSE <<h>> \o t

\* Concatenation of a sequence of byte strings, in sequence order.
RECURSIVE Concat(_)
Concat(bufs) == IF bufs = <<>> THEN <<>> ELSE Head(bufs) \o Concat(Tail(bufs))

\* The whole body of a resource of the given length.
FullBody(length) == IF length = 0 THEN <<>> ELSE <<<<0, length>>>>

NoFile == [exists |-> FALSE, data |-> <<>>]
EmptyFile == [exists |-> TRUE, data |-> <<>>]

Pending == [st |-> "pending"]
NoStream == [open |-> FALSE]
NoProbe == [sent |-> FALSE]
NoRun == [ran |-> FALSE]


\* ------------------------------------------------------- RemoteFile::from
\* A content-disposition value is the sequence of its ';'-separated segments,
\* each the sequence of its '='-separated parts; <<>> is the empty value.
HasFilename(seg) == \E p \in 1..Len(seg) : seg[p] = "filename"

FindFilename(vs) ==
    IF \E s \in 1..Len(vs) : HasFilename(vs[s])
    THEN Some(vs[CHOOSE s \in 1..Len(vs) :
                   HasFilename(vs[s]) /\ \A t \in 1..(s - 1) : ~HasFilename(vs[t])])
    ELSE None

IsSuccess(status) == status >= 200 /\ status < 300

\* resp: [ok: the request returned, status, length: Option, ctd: Option, path].
\* (A disposition value that is not text ends like one without a filename
\* segment: no name.)
from(resp) ==
    IF ~resp.ok THEN None
    ELSE IF ~resp.length.some THEN None
    ELSE LET name ==
                 IF ~IsSuccess(resp.status) THEN None
                 ELSE IF resp.ctd.some
                      THEN IF resp.ctd.val # <<>>
                           THEN LET fv == FindFilename(resp.ctd.val)
                                IN  IF fv.some /\ Len(fv.val) = 2
                                    THEN Some(fv.val[2])
                                    ELSE None
                           ELSE None
                      ELSE Some(resp.path)
         IN  IF name.some
             THEN Some([name |-> name.val, length |-> resp.length.val])
             ELSE None

\* ------------------------------------------------------ RemoteFile::rdownload
\* The ranges of lines 107-115: one (i*B, (i+1)*B) per whole chunk, then the
\* pushed (B * (length / B), length).
PlanRanges(length) ==
    [i \in 1..(length \div BUFFER_SIZE) |->
        <<(i - 1) * BUFFER_SIZE, i * BUFFER_SIZE>>]
    \o <<<<BUFFER_SIZE * (length \div BUFFER_SIZE), length>>>>

\* Faulty variant: any success status is taken for a chunk.
get_ranged_data_any_success(r) ==
    IF ~r.ok THEN None
    ELSE IF IsSuccess(r.status) THEN Some(r.body)
    ELSE None

\* get_ranged_data, after send(): r is [ok, status, body].
get_ranged_data(r) ==
    IF ~r.ok THEN None
    ELSE IF r.status = PARTIAL_CONTENT THEN Some(r.body)
    ELSE None

\* The buffers handed to write_vectored: the chunks in the order of the ranges
\* (par_iter().map().collect() keeps the positions of its input), or None when
\* one of them is None.
Chunk(sl) == IF sl.st = "returned" THEN get_ranged_data(sl) ELSE None

\* Faulty variant: the chunks in the order their fetches returned.
CollectedByArrival(i) ==
    IF \A k \in 1..Len(ranges[i]) : Chunk(slot[i][k]).some
    THEN Some([j \in 1..Len(arrived[i]) |-> Chunk(slot[i][arrived[i][j]]).val])
    ELSE None

\* Faulty variant: the chunks that were fetched, the failed ones left out.
RECURSIVE FetchedChunks(_, _)
FetchedChunks(i, n) ==
    IF n = 0 THEN <<>>
    ELSE IF Chunk(slot[i][n]).some
         THEN Append(FetchedChunks(i, n - 1), Chunk(slot[i][n]).val)
         ELSE FetchedChunks(i, n - 1)

CollectedSkippingNone(i) == Some(FetchedChunks(i, Len(ranges[i])))

Collected(i) ==
    IF \A k \in 1..Len(ranges[i]) : Chunk(slot[i][k]).some
    THEN Some([k \in 1..Len(ranges[i]) |-> Chunk(slot[i][k]).val])
    ELSE None

\* --------------------------------------------------------------- environment
\* What a HEAD request can come back with.
Ctds == {None, Some(<<>>), Some(<<<<"attachment">>>>),
         Some(<<<<"attachment">>, <<"filename", "x.pdb">>>>),
         Some(<<<<"filename", "a", "b">>>>)}

\* A HEAD request fails in transport, or returns 200 or 404 with the
\* resource's headers, the length header possibly missing.
HeadResponses(res) ==
    {[ok |-> FALSE, status |-> 0, length |-> None, ctd |-> None, path |-> "/path"]}
    \cup [ok : {TRUE}, status : {200, 404}, length : {None, Some(res.length)},
          ctd : {res.ctd}, path : {"/path"}]

\* What the server can answer to "Range: bytes=first-last" for a resource of
\* the given length: a transport error, the whole body with 200, and either
\* 206 with the bytes asked for (or one byte fewer, or one more) when the range
\* can be satisfied, or 416 when it cannot.
Satisfiable(first, last, length) == first <= last /\ first < length

RangeResponses(first, last, length) ==
    {[ok |-> FALSE, status |-> 0, body |-> <<>>],
     [ok |-> TRUE, status |-> 200, body |-> FullBody(length)]}
    \cup (IF Satisfiable(first, last, length)
          THEN LET to == Min(last + 1, length)
               IN  {[ok |-> TRUE, status |-> PARTIAL_CONTENT, body |-> <<<<first, e>>>>] :
                        e \in {to - 1, to, to + 1}}
          ELSE {[ok |-> TRUE, status |-> 416, body |-> <<>>]})

\* Requests that occupy a worker of the pool: each blocks its thread.
Items == 1..Len(uris)

InFlight ==
    Cardinality({i \in Items : pc[i] \in {"head", "get", "stream"}})
    + Cardinality(UNION {{<<i, k>> : k \in {j \in 1..Len(slot[i]) :
                                                 slot[i][j].st = "inflight"}} :
                         i \in Items})

\* ----------------------------------------------------------------- initial
InitRun ==
    /\ download_mode \in {"Concurrent", "Sequential"}
    /\ thread_num \in 1..MaxThreads
    /\ overflow_checks \in BOOLEAN
    /\ pc = [i \in Items |-> "queued"]
    /\ remote = [i \in Items |-> None]
    /\ ranges = [i \in Items |-> <<>>]
    /\ slot = [i \in Items |-> <<>>]
    /\ arrived = [i \in Items |-> <<>>]
    /\ stream = [i \in Items |-> NoStream]
    /\ file = [i \in Items |-> NoFile]
    /\ completed = <<>>
    /\ mainpc = "par_iter"
    /\ ok_uris = <<>>
    /\ log = [exists |-> FALSE, lines |-> <<>>, writes |-> 0]
    /\ message = "none"
    /\ probe = [i \in Items |-> NoProbe]
    /\ run = 1
    /\ earlier = NoRun

\* A batch of up to MaxUris URIs over small resources.
Init ==
    /\ \E n \in 0..MaxUris : uris = [i \in 1..n |-> i]
    /\ resource \in [Items -> [length : SmallLengths, ctd : {None}]]
    /\ InitRun

\* One URI, over every shape of resource.
InitOne ==
    /\ uris = <<1>>
    /\ resource \in [Items -> [length : Lengths, ctd : Ctds]]
    /\ InitRun

\* ------------------------------------------------- the closure of lines 226-259
\* Faulty variant: the output file is opened without being truncated.
StartTaskKeeping(i, created) ==
    /\ mainpc = "par_iter"
    /\ UNCHANGED probe
    /\ pc[i] = "queued"
    /\ InFlight < thread_num
    /\ IF created
       THEN /\ file' = [file EXCEPT ![i].exists = TRUE]
            /\ pc' = [pc EXCEPT ![i] = "head"]
       ELSE /\ pc' = [pc EXCEPT ![i] = "none"]
            /\ UNCHANGED file
    /\ UNCHANGED <<run, earlier, resource, uris, download_mode, thread_num,
                   overflow_checks, remote, ranges, slot, arrived, stream, completed,
                   mainpc, ok_uris, log, message>>

\* A worker takes the closure for uris[i]: create_dir_all and File::create,
\* then the HEAD request of RemoteFile::from is sent.
StartTask(i, created) ==
    /\ mainpc = "par_iter"
    /\ UNCHANGED probe
    /\ pc[i] = "queued"
    /\ InFlight < thread_num
    /\ IF created
       THEN /\ file' = [file EXCEPT ![i] = EmptyFile]
            /\ pc' = [pc EXCEPT ![i] = "head"]
       ELSE /\ pc' = [pc EXCEPT ![i] = "none"]
            /\ UNCHANGED file
    /\ UNCHANGED <<run, earlier, resource, uris, download_mode, thread_num, overflow_checks, remote, ranges,
                   slot, arrived, stream, completed, mainpc, ok_uris, log, message>>

\* The HEAD request returns and RemoteFile::from finishes; on Some the download
\* starts: rdownload plans its ranges, sdownload sends its GET.
ProbeReturn(i, resp) ==
    /\ mainpc = "par_iter"
    /\ pc[i] = "head"
    /\ resp \in HeadResponses(resource[uris[i]])
    /\ remote' = [remote EXCEPT ![i] = from(resp)]
    /\ probe' = [probe EXCEPT ![i] =
                    [sent |-> TRUE, ok |-> resp.ok, status |-> resp.status,
                     length |-> resp.length, ctd |-> resp.ctd, path |-> resp.path]]
    /\ IF ~from(resp).some
       THEN /\ pc' = [pc EXCEPT ![i] = "none"]
            /\ UNCHANGED <<ranges, slot>>
       ELSE IF download_mode = "Concurrent"
       THEN /\ pc' = [pc EXCEPT ![i] = "fetch"]
            /\ ranges' = [ranges EXCEPT ![i] = PlanRanges(from(resp).val.length)]
            /\ slot' = [slot EXCEPT ![i] =
                          [k \in 1..Len(PlanRanges(from(resp).val.length)) |-> Pending]]
       ELSE /\ pc' = [pc EXCEPT ![i] = "get"]
            /\ UNCHANGED <<ranges, slot>>
    /\ UNCHANGED <<run, earlier, resource, uris, download_mode, thread_num, overflow_checks, arrived, stream,
                   file, completed, mainpc, ok_uris, log, message>>

\* Faulty variant: the range jobs run on a pool of their own, whatever the
\* number of requests the workers of main's pool are blocked in.
RangeSendOwnPool(i, k) ==
    /\ mainpc = "par_iter"
    /\ UNCHANGED probe
    /\ pc[i] = "fetch"
    /\ k \in 1..Len(slot[i])
    /\ slot[i][k] = Pending
    /\ IF ranges[i][k][2] = 0 /\ overflow_checks
       THEN /\ pc' = [pc EXCEPT ![i] = "panicked"]
            /\ UNCHANGED slot
       ELSE /\ slot' = [slot EXCEPT ![i][k] =
                          [st |-> "inflight", first |-> ranges[i][k][1],
                           last |-> IF ranges[i][k][2] = 0 THEN USIZE_MAX
                                    ELSE ranges[i][k][2] - 1]]
            /\ UNCHANGED pc
    /\ UNCHANGED <<run, earlier, resource, uris, download_mode, thread_num,
                   overflow_checks, remote, ranges, arrived, stream, file, completed,
                   mainpc, ok_uris, log, message>>

\* get_ranged_data up to send(): the header is "bytes=from-(to - 1)"; to - 1
\* overflows when to is 0.
RangeSend(i, k) ==
    /\ mainpc = "par_iter"
    /\ UNCHANGED probe
    /\ pc[i] = "fetch"
    /\ k \in 1..Len(slot[i])
    /\ slot[i][k] = Pending
    /\ InFlight < thread_num
    /\ IF ranges[i][k][2] = 0 /\ overflow_checks
       THEN /\ pc' = [pc EXCEPT ![i] = "panicked"]
            /\ UNCHANGED slot
       ELSE /\ slot' = [slot EXCEPT ![i][k] =
                          [st |-> "inflight", first |-> ranges[i][k][1],
                           last |-> IF ranges[i][k][2] = 0 THEN USIZE_MAX
                                    ELSE ranges[i][k][2] - 1]]
            /\ UNCHANGED pc
    /\ UNCHANGED <<run, earlier, resource, uris, download_mode, thread_num, overflow_checks, remote, ranges,
                   arrived, stream, file, completed, mainpc, ok_uris, log, message>>

\* Faulty variant: a range request that comes back without its chunk is put
\* back to be sent again.
RangeReturnRetrying(i, k) ==
    /\ mainpc = "par_iter"
    /\ UNCHANGED probe
    /\ pc[i] = "fetch"
    /\ k \in 1..Len(slot[i])
    /\ slot[i][k].st = "inflight"
    /\ \E r \in RangeResponses(slot[i][k].first, slot[i][k].last,
                               resource[uris[i]].length) :
          IF r.ok /\ r.status = PARTIAL_CONTENT
          THEN /\ slot' = [slot EXCEPT ![i][k] =
                             [st |-> "returned", first |-> slot[i][k].first,
                              last |-> slot[i][k].last,
                              ok |-> r.ok, status |-> r.status, body |-> r.body]]
               /\ arrived' = [arrived EXCEPT ![i] = Append(arrived[i], k)]
          ELSE /\ slot' = [slot EXCEPT ![i][k] = Pending]
               /\ UNCHANGED arrived
    /\ UNCHANGED <<run, earlier, resource, uris, download_mode, thread_num,
                   overflow_checks, pc, remote, ranges, stream, file, completed,
                   mainpc, ok_uris, log, message>>

\* The range request returns.
RangeReturn(i, k) ==
    /\ mainpc = "par_iter"
    /\ UNCHANGED probe
    /\ pc[i] = "fetch"
    /\ k \in 1..Len(slot[i])
    /\ slot[i][k].st = "inflight"
    /\ \E r \in RangeResponses(slot[i][k].first, slot[i][k].last,
                               resource[uris[i]].length) :
          slot' = [slot EXCEPT ![i][k] =
                     [st |-> "returned", first |-> slot[i][k].first,
                      last |-> slot[i][k].last,
                      ok |-> r.ok, status |-> r.status, body |-> r.body]]
    /\ arrived' = [arrived EXCEPT ![i] = Append(arrived[i], k)]
    /\ UNCHANGED <<run, earlier, resource, uris, download_mode, thread_num, overflow_checks, pc, remote, ranges,
                   stream, file, completed, mainpc, ok_uris, log, message>>

\* What write_vectored writes of the buffers: all of them, only the first
\* (a short write), or nothing with an error.
Written(bufs, how) ==
    IF how = "all" THEN Concat(bufs)
    ELSE IF how = "first" /\ bufs # <<>> THEN Head(bufs)
    ELSE <<>>

\* Lines 119-130: the parallel collect ends (every range returned, or one
\* returned None and none is in flight), then the buffers are written and the
\* written length is asserted to be the declared one.
Assemble(i, how) ==
    /\ mainpc = "par_iter"
    /\ UNCHANGED probe
    /\ pc[i] = "fetch"
    /\ \A k \in 1..Len(slot[i]) : slot[i][k].st # "inflight"
    /\ \/ \A k \in 1..Len(slot[i]) : slot[i][k].st = "returned"
       \/ \E k \in 1..Len(slot[i]) : slot[i][k].st = "returned" /\ ~Chunk(slot[i][k]).some
    /\ IF ~Collected(i).some
       THEN /\ pc' = [pc EXCEPT ![i] = "none"]
            /\ UNCHANGED <<file, completed>>
       ELSE IF how = "err"
       THEN /\ pc' = [pc EXCEPT ![i] = "none"]
            /\ UNCHANGED <<file, completed>>
       ELSE /\ file' = [file EXCEPT ![i].data = Written(Collected(i).val, how)]
            /\ IF remote[i].val.length = ByteLen(Written(Collected(i).val, how))
               THEN /\ pc' = [pc EXCEPT ![i] = "some"]
                    /\ completed' = Append(completed, i)
               ELSE /\ pc' = [pc EXCEPT ![i] = "panicked"]
                    /\ UNCHANGED completed
    /\ UNCHANGED <<run, earlier, resource, uris, download_mode, thread_num, overflow_checks, remote, ranges,
                   slot, arrived, stream, mainpc, ok_uris, log, message>>

\* ------------------------------------------------------ RemoteFile::sdownload
\* Line 134: the GET returns; the server will deliver the resource's length
\* of body, or delta bytes more.
GetReturn(i, sent, delta) ==
    /\ mainpc = "par_iter"
    /\ UNCHANGED probe
    /\ pc[i] = "get"
    /\ resource[uris[i]].length + delta >= 0
    /\ IF sent
       THEN /\ pc' = [pc EXCEPT ![i] = "stream"]
            /\ stream' = [stream EXCEPT ![i] =
                            [open |-> TRUE, total |-> resource[uris[i]].length + delta,
                             saved_length |-> 0]]
       ELSE /\ pc' = [pc EXCEPT ![i] = "none"]
            /\ UNCHANGED stream
    /\ UNCHANGED <<run, earlier, resource, uris, download_mode, thread_num, overflow_checks, remote, ranges,
                   slot, arrived, file, completed, mainpc, ok_uris, log, message>>

\* One turn of the loop of lines 138-145, and lines 146-148 when the read
\* returns 0: read fills the buffer with what is left, at most BUFFER_SIZE.
Read(i, read_ok, write_ok) ==
    /\ mainpc = "par_iter"
    /\ UNCHANGED probe
    /\ pc[i] = "stream"
    /\ LET count == Min(BUFFER_SIZE, stream[i].total - stream[i].saved_length)
           at == stream[i].saved_length
       IN  IF ~read_ok
           THEN /\ pc' = [pc EXCEPT ![i] = "none"]
                /\ UNCHANGED <<stream, file, completed>>
           ELSE IF count = 0
           THEN /\ UNCHANGED <<stream, file>>
                /\ IF remote[i].val.length = stream[i].saved_length
                   THEN /\ pc' = [pc EXCEPT ![i] = "some"]
                        /\ completed' = Append(completed, i)
                   ELSE /\ pc' = [pc EXCEPT ![i] = "panicked"]
                        /\ UNCHANGED completed
           ELSE IF ~write_ok
           THEN /\ pc' = [pc EXCEPT ![i] = "none"]
                /\ UNCHANGED <<stream, file, completed>>
           ELSE /\ file' = [file EXCEPT ![i].data = file[i].data \o <<<<at, at + count>>>>]
                /\ stream' = [stream EXCEPT ![i].saved_length = at + count]
                /\ UNCHANGED <<pc, completed>>
    /\ UNCHANGED <<run, earlier, resource, uris, download_mode, thread_num, overflow_checks, remote, ranges,
                   slot, arrived, mainpc, ok_uris, log, message>>

\* ----------------------------------------------------------------------- main
\* Lines 225-264: the collected Vec<Option<&str>> holds the closures' results
\* at the positions of their URIs; the Some ones are kept, in that order.
\* Faulty variant: the Some results in the order the closures returned.
OkUrisByCompletion(n) == [j \in 1..Len(completed) |-> uris[completed[j]]]

\* Faulty variant: every URI of the input is kept, whatever its closure
\* returned.
OkUrisUnfiltered(n) == [j \in 1..n |-> uris[j]]

RECURSIVE OkUris(_)
OkUris(n) ==
    IF n = 0 THEN <<>>
    ELSE IF pc[n] = "some" THEN Append(OkUris(n - 1), uris[n])
    ELSE OkUris(n - 1)

\* Faulty variant: the log is written whether or not the list is empty.
ReportAlwaysLogs(created) ==
    /\ mainpc = "par_iter"
    /\ UNCHANGED probe
    /\ \A i \in Items : pc[i] \in {"some", "none"}
    /\ ok_uris' = OkUris(Len(uris))
    /\ IF created
       THEN /\ log' = [exists |-> TRUE, lines |-> OkUris(Len(uris)),
                       writes |-> log.writes + 1]
            /\ message' = "Done"
            /\ mainpc' = "done"
       ELSE /\ mainpc' = "error"
            /\ UNCHANGED <<log, message>>
    /\ UNCHANGED <<run, earlier, resource, uris, download_mode, thread_num, overflow_checks, pc,
                   remote, ranges, slot, arrived, stream, file, completed>>

\* Lines 261-281, once every closure has returned.
Report(created) ==
    /\ mainpc = "par_iter"
    /\ UNCHANGED probe
    /\ \A i \in Items : pc[i] \in {"some", "none"}
    /\ ok_uris' = OkUris(Len(uris))
    /\ IF OkUris(Len(uris)) # <<>>
       THEN IF created
            THEN /\ log' = [exists |-> TRUE, lines |-> OkUris(Len(uris)),
                            writes |-> log.writes + 1]
                 /\ message' = "Done"
                 /\ mainpc' = "done"
            ELSE /\ mainpc' = "error"
                 /\ UNCHANGED <<log, message>>
       ELSE /\ message' = "nothing downloaded."
            /\ mainpc' = "done"
            /\ UNCHANGED log
    /\ UNCHANGED <<run, earlier, resource, uris, download_mode, thread_num, overflow_checks, pc, remote, ranges,
                   slot, arrived, stream, file, completed>>

\* A panic of a closure (or of a range job inside it) is resumed in main once
\* the jobs that are running have ended: main unwinds, nothing is reported.
Unwind ==
    /\ mainpc = "par_iter"
    /\ UNCHANGED probe
    /\ \E i \in Items : pc[i] = "panicked"
    /\ \A i \in Items : pc[i] \in {"queued", "some", "none", "panicked"}
    /\ mainpc' = "panicked"
    /\ UNCHANGED <<run, earlier, resource, uris, download_mode, thread_num, overflow_checks, pc, remote, ranges,
                   slot, arrived, stream, file, completed, ok_uris, log, message>>

Next ==
    \/ \E i \in Items, created \in BOOLEAN : StartTask(i, created)
    \/ \E i \in Items : \E resp \in HeadResponses(resource[uris[i]]) : ProbeReturn(i, resp)
    \/ \E i \in Items : \E k \in 1..Len(slot[i]) : RangeSend(i, k)
    \/ \E i \in Items : \E k \in 1..Len(slot[i]) : RangeReturn(i, k)
    \/ \E i \in Items, how \in {"all", "first", "err"} : Assemble(i, how)
    \/ \E i \in Items, sent \in BOOLEAN, delta \in {-1, 0, 1} : GetReturn(i, sent, delta)
    \/ \E i \in Items, read_ok \in BOOLEAN, write_ok \in BOOLEAN : Read(i, read_ok, write_ok)
    \/ \E created \in BOOLEAN : Report(created)
    \/ Unwind

Spec == Init /\ [][Next]_vars

SpecOne == InitOne /\ [][Next]_vars

\* The scheduling of the pool and of the transport: a job that can run is run,
\* a request that was sent returns.
FairSpec == Init /\ [][Next]_vars /\ WF_vars(Next)

\* The program is run again over the same input list and output root, the
\* remote resources unchanged: main starts over (line 201) with the output
\* files and the log the run before left on disk.
Rerun ==
    /\ mainpc # "par_iter"
    /\ run = 1
    /\ run' = 2
    /\ earlier' = [ran |-> TRUE, reported |-> mainpc = "done",
                   logged |-> log.exists, lines |-> log.lines,
                   ok |-> {i \in Items : pc[i] = "some"},
                   completed |-> completed, files |-> file]
    /\ pc' = [i \in Items |-> "queued"]
    /\ remote' = [i \in Items |-> None]
    /\ ranges' = [i \in Items |-> <<>>]
    /\ slot' = [i \in Items |-> <<>>]
    /\ arrived' = [i \in Items |-> <<>>]
    /\ stream' = [i \in Items |-> NoStream]
    /\ probe' = [i \in Items |-> NoProbe]
    /\ completed' = <<>>
    /\ mainpc' = "par_iter"
    /\ ok_uris' = <<>>
    /\ message' = "none"
    /\ log' = [log EXCEPT !.writes = 0]
    /\ UNCHANGED <<resource, uris, download_mode, thread_num, overflow_checks, file>>

NextTwice == Next \/ Rerun

\* Two URIs, run twice.
InitTwice ==
    /\ uris = <<1, 2>>
    /\ resource \in [Items -> [length : SmallLengths, ctd : {None}]]
    /\ InitRun

SpecTwice == InitTwice /\ [][NextTwice]_vars

\* ===================================================================== claims
CeilDiv(a, b) == (a + b - 1) \div b

\* The item's download was planned: rdownload computed its ranges.
Planned(i) == download_mode = "Concurrent" /\ remote[i].some

InLog(u) == \E j \in 1..Len(log.lines) : log.lines[j] = u

\* C1: the planned ranges are contiguous from 0, end at the declared length
\* and number ceil(length / BUFFER_SIZE), 0 for an empty resource.
C1_RangesCoverExactly ==
    \A i \in Items : Planned(i) =>
        LET r == ranges[i]
            length == remote[i].val.length
        IN  /\ Len(r) = CeilDiv(length, BUFFER_SIZE)
            /\ \A k \in 1..Len(r) :
                   r[k][1] = (IF k = 1 THEN 0 ELSE r[k - 1][2])
            /\ IF Len(r) = 0 THEN length = 0 ELSE r[Len(r)][2] = length

\* C2: every planned range has start < end; no (length, length) range is
\* planned when the length is a multiple of BUFFER_SIZE.
C2_NoEmptyRange ==
    \A i \in Items : Planned(i) =>
        \A k \in 1..Len(ranges[i]) : ranges[i][k][1] < ranges[i][k][2]

\* C3: for a resource of declared length 0 no range request is issued (no
\* range of it leaves the pending state) and its download does not abort.
C3_EmptyResourceSucceeds ==
    \A i \in Items : (remote[i].some /\ remote[i].val.length = 0) =>
        /\ \A k \in 1..Len(slot[i]) : slot[i][k].st = "pending"
        /\ pc[i] # "panicked"

\* The server answered range k of item i with 206 and exactly the bytes of
\* that range.
Faithful(i, k) ==
    /\ slot[i][k].st = "returned"
    /\ slot[i][k].ok
    /\ slot[i][k].status = PARTIAL_CONTENT
    /\ slot[i][k].body = <<ranges[i][k]>>

Succeeded(i) == pc[i] = "some"

\* C4: a concurrent download that succeeded on the bytes of its ranges wrote
\* its chunks in ascending range order, which is the resource's whole body,
\* in whatever order the fetches returned.
C4_WrittenInRangeOrder ==
    \A i \in Items :
        (Planned(i) /\ Succeeded(i) /\ \A k \in 1..Len(ranges[i]) : Faithful(i, k)) =>
            /\ file[i].data = Concat([k \in 1..Len(ranges[i]) |-> slot[i][k].body])
            /\ Normalize(file[i].data) = FullBody(remote[i].val.length)

\* A download of several ranges succeeded although a later range returned
\* before the first one.
C4_Witness ==
    \E i \in Items :
        /\ Planned(i) /\ Succeeded(i)
        /\ Len(ranges[i]) >= 2
        /\ \A k \in 1..Len(ranges[i]) : Faithful(i, k)
        /\ arrived[i][1] # 1

\* The fetch of range k of item i failed: get_ranged_data returned None.
FetchFailed(i, k) == slot[i][k].st = "returned" /\ ~Chunk(slot[i][k]).some

\* C5: when the fetch of one range failed, the download is not a success,
\* no byte is in the output file and the URI is not in the log.
C5_AllOrNothing ==
    \A i \in Items :
        (Planned(i) /\ \E k \in 1..Len(slot[i]) : FetchFailed(i, k)) =>
            /\ ~Succeeded(i)
            /\ file[i].data = <<>>
            /\ ~InLog(uris[i])

\* main reported after a download in which one range failed and another
\* was fetched.
C5_Witness ==
    \E i \in Items :
        /\ Planned(i)
        /\ mainpc = "done"
        /\ pc[i] = "none"
        /\ \E k \in 1..Len(slot[i]) : FetchFailed(i, k)
        /\ \E k \in 1..Len(slot[i]) : Chunk(slot[i][k]).some

\* Range k of item i was answered with the whole body and status 200.
AnsweredOk(i, k) ==
    slot[i][k].st = "returned" /\ slot[i][k].ok /\ slot[i][k].status = 200

\* C6: a range request answered with 200 yields no chunk, the download is
\* not a success and the URI is not in the log.
C6_FullBodyRejected ==
    \A i \in Items : \A k \in 1..Len(slot[i]) :
        AnsweredOk(i, k) =>
            /\ ~Chunk(slot[i][k]).some
            /\ ~Succeeded(i)
            /\ ~InLog(uris[i])

\* main reported after a download whose only range was answered with 200 and
\* the body the file should have held.
C6_Witness ==
    \E i \in Items :
        /\ mainpc = "done"
        /\ pc[i] = "none"
        /\ Len(slot[i]) = 1
        /\ AnsweredOk(i, 1)
        /\ slot[i][1].body = FullBody(remote[i].val.length)
        /\ remote[i].val.length > 0

\* The closure of item i has ended.
Ended(i) == pc[i] \in {"some", "none", "panicked"}

\* C7: an item whose download ended with a number of bytes in its file other
\* than the declared length is a failed item (its closure returned None) and
\* main is not aborted by it.
C7_MismatchFailsItem ==
    \A i \in Items :
        (remote[i].some /\ Ended(i)
         /\ ByteLen(file[i].data) # remote[i].val.length) =>
            /\ pc[i] = "none"
            /\ mainpc # "panicked"

\* C8: when main has ended, every item whose own download succeeded is in the
\* collected result: no item's failure took another item's outcome away, and
\* the succeeded count is the number of items that succeeded.
C8_FailuresIsolated ==
    mainpc # "par_iter" =>
        \A i \in Items :
            Succeeded(i) => \E j \in 1..Len(ok_uris) : ok_uris[j] = uris[i]

\* The position of a URI in the input list.
Position(u) == CHOOSE i \in Items : uris[i] = u

\* C9 as stated: the log lists the succeeded URIs in the order their
\* downloads completed.
C9_LogInCompletionOrder ==
    mainpc = "done" =>
        log.lines = [j \in 1..Len(completed) |-> uris[completed[j]]]

\* C9 as amended: the log lists the succeeded URIs, each once, in the order
\* of the input list, whatever the order their downloads completed in.
C9_LogInInputOrder ==
    mainpc = "done" =>
        /\ \A i \in Items : Succeeded(i) <=> InLog(uris[i])
        /\ \A a, b \in 1..Len(log.lines) :
               a < b => Position(log.lines[a]) < Position(log.lines[b])

\* main wrote the log of two downloads of which the later-listed one
\* completed first.
C9_Witness ==
    /\ mainpc = "done"
    /\ Len(log.lines) >= 2
    /\ Len(completed) >= 2
    /\ completed[1] > completed[2]

C11_EndsWithSummary ==
    mainpc # "par_iter" => (mainpc = "done" /\ message # "none")

\* The name the stated policy gives for a HEAD response: the value of the
\* filename segment of a present, non-empty disposition header, and the path
\* of the URL in every other case.
PolicyName(p) ==
    IF /\ p.ctd.some
       /\ p.ctd.val # <<>>
       /\ FindFilename(p.ctd.val).some
       /\ Len(FindFilename(p.ctd.val).val) = 2
    THEN FindFilename(p.ctd.val).val[2]
    ELSE p.path

\* C12: a HEAD response of success class with a length header resolves, to
\* the name of the stated policy.
C12_NamePolicy ==
    \A i \in Items :
        (probe[i].sent /\ probe[i].ok /\ IsSuccess(probe[i].status)
         /\ probe[i].length.some) =>
            /\ remote[i].some
            /\ remote[i].val.name = PolicyName(probe[i])

\* C13: the requests in flight (HEAD probes, range requests, streamed GETs,
\* over all items) never outnumber the workers of the pool.
C13_InFlightBounded == InFlight <= thread_num

\* Every worker of a pool of several is blocked in a request, a probe of one
\* item and a range request of another among them.
C13_Witness ==
    /\ thread_num >= 2
    /\ InFlight = thread_num
    /\ \E i, j \in Items :
          /\ i # j
          /\ pc[i] = "head"
          /\ \E k \in 1..Len(slot[j]) : slot[j][k].st = "inflight"

\* C14: when the program was run twice to its report and the same items
\* succeeded in both runs, the second run left the log the first one wrote,
\* same URIs in the same order, whatever the orders of completion; and the
\* file of every item that succeeded holds the resource's length of bytes,
\* not the bytes of both runs.
C14_Idempotent ==
    (run = 2 /\ mainpc = "done" /\ earlier.reported) =>
        /\ {i \in Items : Succeeded(i)} = earlier.ok =>
               /\ log.exists = earlier.logged
               /\ log.lines = earlier.lines
        /\ \A i \in Items :
               Succeeded(i) => ByteLen(file[i].data) = resource[uris[i]].length

\* Both runs downloaded both URIs, the first in input order and the second
\* in the other order, over files the first run had filled.
C14_Witness ==
    /\ run = 2
    /\ mainpc = "done"
    /\ earlier.reported
    /\ earlier.ok = Items
    /\ \A i \in Items : Succeeded(i) /\ earlier.files[i].data # <<>>
    /\ earlier.completed = <<1, 2>>
    /\ completed = <<2, 1>>

\* C15: when every request eventually returns and every worker eventually
\* takes its next step, every batch run eventually reaches its final report.
C15_ReachesReport == <>(mainpc = "done")

\* The part of C15 about the shared pool: every run eventually leaves the
\* parallel section, so no set of waiting URI tasks blocks the pool for ever.
C15_RunEnds == <>(mainpc # "par_iter")

\* How far an item is: queued, resolving, fetching (planned) or reading the
\* stream, ended; and how far a range request is.
PcRank(p) ==
    IF p = "queued" THEN 0
    ELSE IF p = "head" THEN 1
    ELSE IF p \in {"fetch", "get"} THEN 2
    ELSE IF p = "stream" THEN 3
    ELSE 4

SlotRank(st) == IF st = "pending" THEN 0 ELSE IF st = "inflight" THEN 1 ELSE 2

\* C16: within one run every step moves an item forwards only: it is resolved
\* (once, from the queue), then planned and fetched, then assembled into Done,
\* or it fails; an ended item never changes again; the answer to the probe is
\* taken once; each planned range goes from pending to in flight to returned,
\* never back, so no request is sent twice and none of a failed item again.
C16_NoRetry ==
    [][\A i \in Items :
          /\ PcRank(pc'[i]) >= PcRank(pc[i])
          /\ Ended(i) => /\ pc'[i] = pc[i]
                          /\ slot'[i] = slot[i]
                          /\ probe'[i] = probe[i]
          /\ (pc'[i] = "head" /\ pc[i] # "head") => (pc[i] = "queued" /\ ~probe[i].sent)
          /\ probe[i].sent => probe'[i] = probe[i]
          /\ (pc'[i] = "some" /\ pc[i] # "some") => pc[i] \in {"fetch", "stream"}
          /\ \A k \in 1..Len(slot[i]) :
                /\ Len(slot'[i]) = Len(slot[i])
                /\ SlotRank(slot'[i][k].st) >= SlotRank(slot[i][k].st)
                /\ slot[i][k].st = "returned" => slot'[i][k] = slot[i][k]
      ]_vars

\* The run is over; an item failed at a range whose request came back without
\* a chunk, and that request was not sent again, nor was a range of the item
\* that had not been sent yet.
C16_Witness ==
    /\ mainpc = "done"
    /\ \E i \in Items :
          /\ pc[i] = "none"
          /\ probe[i].sent
          /\ \E k \in 1..Len(slot[i]) : FetchFailed(i, k)
          /\ \E k \in 1..Len(slot[i]) : slot[i][k] = Pending

\* C17: in every concurrent download that succeeded, each chunk that was
\* assembled has exactly the length of its range; so a response with a chunk
\* of another length keeps the item from succeeding.
C17_ChunksHaveRangeLength ==
    \A i \in Items :
        (Planned(i) /\ Succeeded(i)) =>
            \A k \in 1..Len(ranges[i]) :
                /\ slot[i][k].st = "returned"
                /\ ByteLen(slot[i][k].body) = ranges[i][k][2] - ranges[i][k][1]

\* The positions of the input list whose items succeeded, ascending.
KeptPositions ==
    SelectSeq([j \in 1..Len(uris) |-> j], LAMBDA j : Succeeded(j))

\* C18: when main has reported, the list of successes is the input list
\* with the items that did not succeed removed, one entry per kept position,
\* in input order, whatever the order the closures returned in; and the log,
\* when written, holds that list.
C18_LogIsFilteredInput ==
    mainpc = "done" =>
        /\ ok_uris = [j \in 1..Len(KeptPositions) |-> uris[KeptPositions[j]]]
        /\ log.exists => log.lines = ok_uris

\* The first URI of two failed after the second had succeeded, and the log
\* holds the second URI only.
C18_Witness ==
    /\ mainpc = "done"
    /\ Len(uris) = 2
    /\ pc[1] = "none"
    /\ completed = <<2>>
    /\ log.exists
    /\ log.lines = <<uris[2]>>

\* An item that failed when its resource was resolved, or at the fetch of
\* one of its ranges.
FailedEarly(i) ==
    /\ pc[i] = "none"
    /\ probe[i].sent
    /\ \/ ~remote[i].some
       \/ Planned(i) /\ \E k \in 1..Len(slot[i]) : FetchFailed(i, k)

\* C19: the output file is created and emptied before the resource is
\* resolved: while an item is being resolved its file exists and is empty,
\* and an item that failed at resolution or at a concurrent range fetch has
\* an output file of zero bytes, whatever the file held before the run, and
\* is not in the run's list of successes.
C19_FailedItemsLeaveEmptyFile ==
    \A i \in Items :
        /\ pc[i] = "head" => file[i] = EmptyFile
        /\ FailedEarly(i) =>
               /\ file[i] = EmptyFile
               /\ \A j \in 1..Len(ok_uris) : ok_uris[j] # uris[i]

\* The second run is over; an item whose file the first run had filled
\* failed in it at resolution, another at a range fetch, and both files
\* are empty.
C19_Witness ==
    /\ run = 2
    /\ mainpc = "done"
    /\ \E i, j \in Items :
          /\ i \in earlier.ok /\ earlier.files[i].data # <<>>
          /\ FailedEarly(i) /\ ~remote[i].some
          /\ file[i] = EmptyFile
          /\ j \in earlier.ok /\ earlier.files[j].data # <<>>
          /\ FailedEarly(j) /\ remote[j].some
          /\ file[j] = EmptyFile

====
